---- MODULE Spec2Model ----
(***************************************************************************)
(* Account value type (copy-on-write payload), per-account digest and      *)
(* Merkle accumulation of twine-solana-sdk, as state machines.             *)
(*                                                                         *)
(*   Spec        AccountSharedData holders over Arc<Vec<u8>> buffers       *)
(*   SpecHash    hash_account / hash_account_data                          *)
(*   SpecMerkle  AccountsHasher::compute_merkle_root_loop                  *)
(***************************************************************************)
EXTENDS Integers, Sequences, FiniteSets, TLC

VARIABLES
    accts,      \* AccountSharedData values: [live, data (the Arc it holds)]
    arcs,       \* the Arc<Vec<u8>> allocations: [strong, vec]
    call,       \* the call in progress or just finished, with what it started from
    hacct,      \* the account and address given to hash_account
    hres,       \* what hash_account returned for hacct, if it ran
    hprev,      \* the account hashed before the last field change, and its digest
    mk,         \* the Merkle root computation: its input, current level and result
    lacct,      \* the account whose lamports are adjusted
    lres,       \* the last lamports adjustment: operand, account before, result
    flds,       \* lamports, owner, executable, rent_epoch of each AccountSharedData
    owned,      \* the Account value: its fields and its Vec<u8>
    out,        \* what the conversion or serialisation in progress started from
    uq          \* Pubkey::new_unique: the static counter and the calls of each thread

cowVars == <<accts, arcs, call>>

hashVars == <<hacct, hres, hprev>>

lamVars == <<lacct, lres>>

convVars == <<flds, owned, out>>

vars == <<accts, arcs, call, hacct, hres, hprev, mk, lacct, lres, flds, owned, out, uq>>

(***************************************************************************)
(* Bounds.                                                                 *)
(***************************************************************************)
NumHolders == 2     \* AccountSharedData values alive at once
MaxCap == 2         \* largest Vec capacity
MaxHeap == 4        \* bytes allocated in all Vecs together

Holder == 1..NumHolders
BufId == 1..NumHolders
NoBuf == 0
Byte == {0, 1}
Uninit == -1        \* what a read past the initialised prefix yields

RECURSIVE SeqsUpTo(_)
SeqsUpTo(n) ==
    IF n = 0 THEN {<<>>}
    ELSE LET S == SeqsUpTo(n - 1)
         IN  S \cup {Append(s, b) : s \in {t \in S : Len(t) = n - 1}, b \in Byte}

Payloads == SeqsUpTo(MaxCap)

(***************************************************************************)
(* Vec<u8>.  mem is the initialised prefix of the allocation, len the      *)
(* logical length, cap the allocated capacity.  Bytes past len are dead:   *)
(* outside of the raw copy of set_data_from_slice, Len(mem) = len.         *)
(***************************************************************************)
EmptyVec == [mem |-> <<>>, len |-> 0, cap |-> 0]

VecFrom(bytes, cap) == [mem |-> bytes, len |-> Len(bytes), cap |-> cap]

\* &v[..]: the len bytes a reader sees
VecSlice(v) == [i \in 1..v.len |-> IF i <= Len(v.mem) THEN v.mem[i] ELSE Uninit]

\* Vec::clone / <[u8]>::to_vec: an allocation of exactly len bytes
VecClone(v) == VecFrom(VecSlice(v), v.len)

\* Vec::reserve(additional): nothing when the spare capacity suffices, else a
\* reallocation to newcap >= len + additional (the amount is the allocator's)
VecNeedsGrow(v, additional) == v.cap - v.len < additional

VecReserve(v, additional, newcap) ==
    IF VecNeedsGrow(v, additional) THEN [v EXCEPT !.cap = newcap] ELSE v

\* the capacities reserve may end with
ReserveCaps(v, additional) ==
    IF VecNeedsGrow(v, additional) THEN (v.len + additional)..MaxCap ELSE {v.cap}

\* Vec::resize(new_len, value)
VecResize(v, new_len, value, newcap) ==
    IF new_len > v.len
    THEN LET r == VecReserve(v, new_len - v.len, newcap)
         IN  [r EXCEPT !.mem = VecSlice(v) \o [i \in 1..(new_len - v.len) |-> value],
                       !.len = new_len]
    ELSE [v EXCEPT !.mem = SubSeq(VecSlice(v), 1, new_len), !.len = new_len]

\* Vec::extend_from_slice(data)
VecExtendFromSlice(v, bytes, newcap) ==
    LET r == VecReserve(v, Len(bytes), newcap)
    IN  [r EXCEPT !.mem = VecSlice(v) \o bytes, !.len = v.len + Len(bytes)]

\* slice[i] = b on the &mut [u8] of the vec (i is 1-based here)
VecWrite(v, i, b) == [v EXCEPT !.mem[i] = b]

(***************************************************************************)
(* Arc<Vec<u8>>.  Addresses carry no meaning, so the heap is kept in one   *)
(* numbering: each allocation sits at the index of its first holder.       *)
(***************************************************************************)
FreeArc == [strong |-> 0, vec |-> EmptyVec]

\* the allocation Arc::new returns: the lowest free slot
NewArcId(r) == CHOOSE b \in BufId : r[b].strong = 0 /\ \A c \in BufId : c < b => r[c].strong # 0

\* Arc::new(vec)
ArcNew(r, vec) == [r EXCEPT ![NewArcId(r)] = [strong |-> 1, vec |-> vec]]

\* Arc::clone
ArcClone(r, b) == [r EXCEPT ![b].strong = @ + 1]

\* drop of one Arc handle
ArcDrop(r, b) ==
    IF r[b].strong = 1 THEN [r EXCEPT ![b] = FreeArc]
    ELSE [r EXCEPT ![b].strong = @ - 1]

\* the first holder of h's allocation
Lead(a, h) ==
    CHOOSE g \in Holder :
        /\ a[g].live /\ a[g].data = a[h].data
        /\ \A k \in Holder : (a[k].live /\ a[k].data = a[h].data) => g <= k

RenumberAccts(a) ==
    [h \in Holder |-> IF a[h].live THEN [live |-> TRUE, data |-> Lead(a, h)] ELSE a[h]]

RenumberArcs(a, r) ==
    [b \in BufId |-> IF a[b].live /\ Lead(a, b) = b THEN r[a[b].data] ELSE FreeArc]

RECURSIVE HeapUpTo(_, _)
HeapUpTo(r, n) == IF n = 0 THEN 0 ELSE r[n].vec.cap + HeapUpTo(r, n - 1)

\* the bytes allocated in all Vecs
HeapSize(r) == HeapUpTo(r, NumHolders)

\* the state after an operation that leaves holders a over allocations r
Install(a, r) ==
    /\ HeapSize(RenumberArcs(a, r)) <= MaxHeap
    /\ accts' = RenumberAccts(a)
    /\ arcs' = RenumberArcs(a, r)

(***************************************************************************)
(* AccountSharedData accessors.                                            *)
(***************************************************************************)
\* AccountSharedData::is_shared
is_shared(h) == arcs[accts[h].data].strong > 1

\* ReadableAccount::data
data(h) == VecSlice(arcs[accts[h].data].vec)

\* AccountSharedData::capacity
capacity(h) == arcs[accts[h].data].vec.cap

\* a make_mut that writes through a shared Arc
data_mut_InPlace(h) == [arcs |-> arcs, id |-> accts[h].data]

\* AccountSharedData::data_mut = Arc::make_mut(&mut self.data): the buffer is
\* kept when uniquely held, else cloned into a new Arc and the old handle dropped
data_mut(h) ==
    LET b == accts[h].data
    IN  IF arcs[b].strong = 1
        THEN [arcs |-> arcs, id |-> b]
        ELSE [arcs |-> ArcDrop(ArcNew(arcs, VecClone(arcs[b].vec)), b),
              id   |-> NewArcId(arcs)]

\* the privatised Vec that data_mut hands out
MutVec(h) == LET m == data_mut(h) IN m.arcs[m.id].vec

\* self.data_mut().<f>: holder h ends holding the privatised buffer, changed to v
WithDataMut(h, v) ==
    LET m == data_mut(h)
    IN  Install([accts EXCEPT ![h].data = m.id], [m.arcs EXCEPT ![m.id].vec = v])

(***************************************************************************)
(* Calls.  The library is synchronous: one call runs at a time.  call      *)
(* records the operation, its receiver and argument, where it stands, and  *)
(* what every holder saw when it started; Return forgets it.               *)
(***************************************************************************)
Dead == <<Uninit>>

\* Default for the fields besides data: what a value that is not alive reads as
NoFields == [lamports |-> 0, owner |-> <<>>, executable |-> FALSE, rent_epoch |-> 0]

NoAccount == [live |-> FALSE, fields |-> NoFields, data |-> EmptyVec]

\* what a reader sees of a value that is not there
NoSnap ==
    [lamports |-> 0, data |-> <<>>, owner |-> <<>>, executable |-> FALSE, rent_epoch |-> 0]

NoOut ==
    [op |-> "none", h |-> 0, src |-> NoSnap, orig |-> NoSnap, trip |-> FALSE,
     cloned |-> FALSE, result |-> "none"]

ParkedConv ==
    /\ flds = [h \in Holder |-> NoFields]
    /\ owned = NoAccount
    /\ out = NoOut

\* the operation touches the payload only
Quiet == out' = NoOut /\ UNCHANGED <<flds, owned>>

View(h) == IF accts[h].live THEN data(h) ELSE Dead

Sharers(h) == {g \in Holder \ {h} : accts[g].live /\ accts[g].data = accts[h].data}

NoCall ==
    [op |-> "none", h |-> 0, pc |-> "idle", arg |-> <<>>, copied |-> 0, shared |-> FALSE,
     sharers |-> {}, before |-> [g \in Holder |-> Dead], len0 |-> 0, cap0 |-> 0]

\* a call of op on holder h starts: what the other holders see is recorded
Enter(op, h) ==
    [op |-> op, h |-> h, pc |-> "done", arg |-> <<>>, copied |-> 0,
     shared |-> accts[h].live /\ is_shared(h),
     sharers |-> IF accts[h].live THEN Sharers(h) ELSE {},
     before |-> [g \in Holder |-> IF g = h THEN Dead ELSE View(g)],
     len0 |-> 0, cap0 |-> 0]

Idle(h) == call.pc = "idle" /\ accts[h].live

InitCow ==
    /\ accts = [h \in Holder |-> [live |-> FALSE, data |-> NoBuf]]
    /\ arcs = [b \in BufId |-> FreeArc]
    /\ call = NoCall

\* the call returns to the caller
Return ==
    /\ call.pc = "done"
    /\ call' = NoCall
    /\ UNCHANGED <<accts, arcs>>
    /\ UNCHANGED <<hashVars, mk, lamVars, uq>>
    /\ Quiet

(***************************************************************************)
(* Construction, duplication, drop.                                        *)
(***************************************************************************)
\* WritableAccount::create / From<Account>: data: Arc::new(data)
create(h, bytes, cap) ==
    /\ call.pc = "idle"
    /\ ~accts[h].live
    /\ Install([accts EXCEPT ![h] = [live |-> TRUE, data |-> NewArcId(arcs)]],
               ArcNew(arcs, VecFrom(bytes, cap)))
    /\ call' = Enter("create", h)
    /\ UNCHANGED <<hashVars, mk, lamVars, uq>>
    /\ Quiet

\* AccountSharedData::to_account_shared_data / clone: Arc::clone(&self.data)
to_account_shared_data(src, dst) ==
    /\ Idle(src)
    /\ ~accts[dst].live
    /\ Install([accts EXCEPT ![dst] = [live |-> TRUE, data |-> accts[src].data]],
               ArcClone(arcs, accts[src].data))
    /\ call' = Enter("to_account_shared_data", src)
    /\ flds' = [flds EXCEPT ![dst] = flds[src]]
    /\ out' = [NoOut EXCEPT !.op = "to_account_shared_data", !.h = dst]
    /\ UNCHANGED <<hashVars, mk, lamVars, owned, uq>>

\* drop(AccountSharedData)
drop(h) ==
    /\ Idle(h)
    /\ Install([accts EXCEPT ![h] = [live |-> FALSE, data |-> NoBuf]],
               ArcDrop(arcs, accts[h].data))
    /\ call' = Enter("drop", h)
    /\ flds' = [flds EXCEPT ![h] = NoFields]
    /\ out' = NoOut
    /\ UNCHANGED <<hashVars, mk, lamVars, owned, uq>>

(***************************************************************************)
(* Mutation through data_mut.                                              *)
(***************************************************************************)
\* data_as_mut_slice()[i] = b
data_as_mut_slice(h, i, b) ==
    /\ Idle(h)
    /\ i \in 1..MutVec(h).len
    /\ WithDataMut(h, VecWrite(MutVec(h), i, b))
    /\ call' = Enter("data_as_mut_slice", h)
    /\ UNCHANGED <<hashVars, mk, lamVars, uq>>
    /\ Quiet

\* reserve(additional)
reserve(h, additional, newcap) ==
    /\ Idle(h)
    /\ newcap \in ReserveCaps(MutVec(h), additional)
    /\ WithDataMut(h, VecReserve(MutVec(h), additional, newcap))
    /\ call' = Enter("reserve", h)
    /\ UNCHANGED <<hashVars, mk, lamVars, uq>>
    /\ Quiet

\* resize(new_len, value)
resize(h, new_len, value, newcap) ==
    /\ Idle(h)
    /\ newcap \in ReserveCaps(MutVec(h), new_len - MutVec(h).len)
    /\ WithDataMut(h, VecResize(MutVec(h), new_len, value, newcap))
    /\ call' = Enter("resize", h)
    /\ UNCHANGED <<hashVars, mk, lamVars, uq>>
    /\ Quiet

\* extend_from_slice(data)
extend_from_slice(h, bytes, newcap) ==
    /\ Idle(h)
    /\ newcap \in ReserveCaps(MutVec(h), Len(bytes))
    /\ WithDataMut(h, VecExtendFromSlice(MutVec(h), bytes, newcap))
    /\ call' = Enter("extend_from_slice", h)
    /\ UNCHANGED <<hashVars, mk, lamVars, uq>>
    /\ Quiet

\* spare_data_capacity_mut(): privatises and hands out the spare tail; the
\* logical length, hence the payload, is not changed by writes into it
spare_data_capacity_mut(h) ==
    /\ Idle(h)
    /\ WithDataMut(h, MutVec(h))
    /\ call' = Enter("spare_data_capacity_mut", h)
    /\ UNCHANGED <<hashVars, mk, lamVars, uq>>
    /\ Quiet

(***************************************************************************)
(* set_data_from_slice.  The shared path is one step; the in-place path is *)
(* followed statement by statement, the raw copy byte by byte.             *)
(***************************************************************************)
\* a get_mut that always yields the buffer
Arc_get_mut_Always(h) == TRUE

\* Arc::get_mut(&mut self.data).is_some(): the Arc is uniquely held
Arc_get_mut(h) == arcs[accts[h].data].strong = 1

\* reserving the whole new length
sdfs_additional_NewLen(new_len, len) == new_len

\* new_len.saturating_sub(data.len())
sdfs_additional(new_len, len) == IF new_len > len THEN new_len - len ELSE 0

\* setting the final length before the copy
sdfs_first_len_NewLen(new_len) == new_len

\* the length set before the copy: data.set_len(0)
sdfs_first_len(new_len) == 0

\* the vec of the holder whose call is in progress
CallVec == arcs[accts[call.h].data].vec

SetCallVec(v) ==
    /\ arcs' = [arcs EXCEPT ![accts[call.h].data].vec = v]
    /\ UNCHANGED accts

\* set_data(new_data.to_vec()): self.data = Arc::new(data), the old handle dropped
set_data(h, bytes) ==
    Install([accts EXCEPT ![h].data = NewArcId(arcs)],
            ArcDrop(ArcNew(arcs, VecFrom(bytes, Len(bytes))), accts[h].data))

\* set_data_from_slice(new_data), up to and including data.reserve(..)
set_data_from_slice(h, new_data, newcap) ==
    /\ Idle(h)
    /\ LET c == [Enter("set_data_from_slice", h) EXCEPT
                    !.arg = new_data, !.len0 = Len(data(h)), !.cap0 = capacity(h)]
           v == arcs[accts[h].data].vec
           additional == sdfs_additional(Len(new_data), v.len)
       IN  IF ~Arc_get_mut(h)
           THEN /\ set_data(h, new_data)
                /\ call' = c
           ELSE /\ newcap \in ReserveCaps(v, additional)
                /\ HeapSize(arcs) - v.cap + newcap <= MaxHeap
                /\ arcs' = [arcs EXCEPT ![accts[h].data].vec = VecReserve(v, additional, newcap)]
                /\ call' = [c EXCEPT !.pc = "reserved"]
                /\ UNCHANGED accts
    /\ UNCHANGED <<hashVars, mk, lamVars, uq>>
    /\ Quiet

\* Vec::set_len(n): bytes past the new length are dead
VecSetLen(v, n) ==
    [v EXCEPT !.len = n,
              !.mem = [i \in 1..(IF n < Len(v.mem) THEN n ELSE Len(v.mem)) |-> v.mem[i]]]

\* one byte of a raw copy lands at offset k (0-based) of the allocation
VecPoke(v, k, b) ==
    IF k < Len(v.mem) THEN [v EXCEPT !.mem[k + 1] = b]
    ELSE [v EXCEPT !.mem = Append(@, b)]

\* data.set_len(0)
sdfs_set_len_0 ==
    /\ call.pc = "reserved"
    /\ SetCallVec(VecSetLen(CallVec, sdfs_first_len(Len(call.arg))))
    /\ call' = [call EXCEPT !.pc = "copy"]
    /\ UNCHANGED <<hashVars, mk, lamVars, uq>>
    /\ Quiet

\* ptr::copy_nonoverlapping(new_data.as_ptr(), data.as_mut_ptr(), new_len): one byte
sdfs_copy_byte ==
    /\ call.pc = "copy"
    /\ call.copied < Len(call.arg)
    /\ SetCallVec(VecPoke(CallVec, call.copied, call.arg[call.copied + 1]))
    /\ call' = [call EXCEPT !.copied = @ + 1]
    /\ UNCHANGED <<hashVars, mk, lamVars, uq>>
    /\ Quiet

\* data.set_len(new_len)
sdfs_set_len_new ==
    /\ call.pc = "copy"
    /\ call.copied = Len(call.arg)
    /\ SetCallVec([CallVec EXCEPT !.len = Len(call.arg)])
    /\ call' = [call EXCEPT !.pc = "done"]
    /\ UNCHANGED <<hashVars, mk, lamVars, uq>>
    /\ Quiet

NextCow ==
    \/ \E h \in Holder, bytes \in Payloads, cap \in 0..MaxCap :
          cap >= Len(bytes) /\ create(h, bytes, cap)
    \/ \E src, dst \in Holder : to_account_shared_data(src, dst)
    \/ \E h \in Holder : drop(h)
    \/ \E h \in Holder, i \in 1..MaxCap, b \in Byte : data_as_mut_slice(h, i, b)
    \/ \E h \in Holder, n \in 0..MaxCap, c \in 0..MaxCap : reserve(h, n, c)
    \/ \E h \in Holder, n \in 0..MaxCap, b \in Byte, c \in 0..MaxCap : resize(h, n, b, c)
    \/ \E h \in Holder, bytes \in Payloads, c \in 0..MaxCap : extend_from_slice(h, bytes, c)
    \/ \E h \in Holder : spare_data_capacity_mut(h)
    \/ \E h \in Holder, bytes \in Payloads, c \in 0..MaxCap : set_data_from_slice(h, bytes, c)
    \/ sdfs_set_len_0
    \/ sdfs_copy_byte
    \/ sdfs_set_len_new
    \/ Return

(***************************************************************************)
(* Copy-on-write claims.                                                   *)
(***************************************************************************)
Mutators ==
    {"data_as_mut_slice", "reserve", "resize", "extend_from_slice",
     "set_data_from_slice", "spare_data_capacity_mut"}

\* the other holders that were alive when the call started
Others == {g \in Holder \ {call.h} : call.before[g] # Dead}

Untouched(g) == accts[g].live /\ data(g) = call.before[g]

\* the call is set_data_from_slice on a uniquely held buffer
InPlace == call.op = "set_data_from_slice" /\ ~call.shared

\* C1: while and after a mutating operation runs on one holder, every other
\* holder, and so every holder that shared its buffer, still reads through
\* data() the bytes and the length it read before the operation
C1_CopyOnWriteIsolation ==
    call.op \in Mutators => \A g \in Others : Untouched(g)

\* a mutating operation ran on a holder of a shared buffer and changed its
\* payload, and a holder it shared with still reads the old payload
C1_Witness ==
    /\ call.op \in Mutators /\ call.pc = "done" /\ call.shared
    /\ \E g \in call.sharers : Untouched(g) /\ data(g) # data(call.h)

\* C2: set_data_from_slice on a shared buffer is one step that leaves the
\* caller with a buffer of its own equal to new_bytes, not the one it shared,
\* and every other holder with the payload it had
C2_SharedSetDataFromSlice ==
    (call.op = "set_data_from_slice" /\ call.shared) =>
        /\ call.pc = "done"
        /\ data(call.h) = call.arg
        /\ ~is_shared(call.h)
        /\ \A g \in call.sharers : accts[g].data # accts[call.h].data
        /\ \A g \in Others : Untouched(g)

C2_Witness ==
    /\ call.op = "set_data_from_slice" /\ call.shared /\ call.pc = "done"
    /\ \E g \in call.sharers : data(g) # call.arg /\ Len(data(g)) # Len(call.arg)

\* C3: set_data_from_slice on a uniquely held buffer keeps the capacity it
\* started with whenever new_bytes fits it, and ends with data() = new_bytes
C3_UniqueSetDataFromSlice ==
    InPlace =>
        /\ Len(call.arg) <= call.cap0 => capacity(call.h) = call.cap0
        /\ call.pc = "done" => data(call.h) = call.arg /\ Len(data(call.h)) = Len(call.arg)

\* a payload was replaced in place by a longer one that fits the capacity
C3_Witness ==
    /\ InPlace /\ call.pc = "done"
    /\ 0 < call.len0 /\ call.len0 < Len(call.arg) /\ Len(call.arg) <= call.cap0
    /\ capacity(call.h) = call.cap0
    /\ data(call.h) = call.arg

\* the bytes of new_data copied so far
Copied == IF call.pc = "done" THEN Len(call.arg) ELSE call.copied

\* C4 as stated: at every point between the steps of the in-place path the
\* length is at most the number of bytes copied and at most the capacity, the
\* capacity is at least new_len, and between the two set_len the length is 0
C4_AsStated ==
    (InPlace /\ call.pc \in {"reserved", "copy"}) =>
        /\ CallVec.len <= Copied
        /\ CallVec.len <= CallVec.cap
        /\ CallVec.cap >= Len(call.arg)
        /\ call.pc = "copy" => CallVec.len = 0

\* C4 as amended: at every point of the in-place path the length is at most the
\* initialised prefix and the capacity, and the capacity is at least new_len;
\* after reserve the length is still the old one; from the first set_len to
\* the last the length is 0, hence at most the number of bytes copied, which
\* is all that is initialised; at the end the length is new_len, all copied
C4_LengthNeverPastCopied ==
    InPlace =>
        /\ CallVec.len <= Len(CallVec.mem)
        /\ Len(CallVec.mem) <= CallVec.cap
        /\ CallVec.cap >= Len(call.arg)
        /\ call.pc = "reserved" =>
              CallVec.len = call.len0 /\ Len(CallVec.mem) = call.len0 /\ Copied = 0
        /\ call.pc = "copy" =>
              CallVec.len = 0 /\ CallVec.len <= Copied /\ Len(CallVec.mem) = Copied
        /\ call.pc = "done" => CallVec.len = Len(call.arg) /\ Copied = Len(call.arg)

\* the raw copy is under way: one byte copied, one to go, the length 0
C4_Witness ==
    /\ InPlace /\ call.pc = "copy"
    /\ 0 < Copied /\ Copied < Len(call.arg)
    /\ CallVec.len = 0

(***************************************************************************)
(* hash_account.  A digest is modelled by what it is a digest of: blake3   *)
(* is taken as injective on byte streams and as never yielding 32 zeros.   *)
(***************************************************************************)
SmallLen == 1       \* payload lengths run 0..SmallLen and DATA_SIZE_CAN_FIT -+ SmallLen
NumKeys == 2        \* pubkeys drawn from new_unique, besides Pubkey::default()

PUBKEY_BYTES == 32

BUF_SIZE == 128

TOTAL_FIELD_SIZE == 8 + 8 + 8 + 1 + 32 + 32

DATA_SIZE_CAN_FIT == BUF_SIZE - TOTAL_FIELD_SIZE

Fill(n, b) == [i \in 1..n |-> b]

\* u64::to_le_bytes, least significant byte first
RECURSIVE LeBytes(_, _)
LeBytes(x, n) == IF n = 0 THEN <<>> ELSE <<x % 256>> \o LeBytes(x \div 256, n - 1)

to_le_bytes(x) == LeBytes(x, 8)

\* u64::to_be_bytes, most significant byte first
to_be_bytes(x) == [i \in 1..8 |-> to_le_bytes(x)[9 - i]]

\* Pubkey::default(): 32 zero bytes
PubkeyDefault == Fill(PUBKEY_BYTES, 0)

\* the pubkey Pubkey::new_unique makes of counter value i
PubkeyOfCounter(i) == to_be_bytes(i) \o Fill(PUBKEY_BYTES - 8, 0)

HashKeys == {PubkeyDefault} \cup {PubkeyOfCounter(i) : i \in 1..NumKeys}

HashLamports == {0, 1, 256, 5000000}

HashEpochs == {0, 1, 256}

HashLens == (0..SmallLen) \cup ((DATA_SIZE_CAN_FIT - SmallLen)..(DATA_SIZE_CAN_FIT + SmallLen))

\* payloads of every length in HashLens: all 0, all 1, and all 0 but the last byte
HashPayloads ==
    {Fill(n, b) : n \in HashLens, b \in Byte}
        \cup {Fill(n - 1, 0) \o <<1>> : n \in HashLens \ {0}}

\* Hash::default(): the all-zero digest
HashDefault == [alg |-> "zero", of |-> <<>>]

\* blake3::Hasher::new()
HasherNew == [stream |-> <<>>, updates |-> 0]

\* Hasher::update(bytes)
HasherUpdate(hs, bytes) == [stream |-> hs.stream \o bytes, updates |-> hs.updates + 1]

\* Hash::new_from_array(hasher.finalize().into())
HasherFinalize(hs) == [alg |-> "blake3", of |-> hs.stream]

\* a tombstone test that never fires
IsZeroLamports_Never(lamports) == FALSE

\* if lamports == 0
IsZeroLamports(lamports) == lamports = 0

\* a streamed path that forgets buffer.clear()
buffer_clear_Keep(buffer) == buffer

\* buffer.clear()
buffer_clear(buffer) == <<>>

\* an exec flag byte that is always 0
exec_flag_Zero(executable) == 0

\* buffer.push(1_u8) / buffer.push(0_u8)
exec_flag(executable) == IF executable THEN 1 ELSE 0

\* the body of hash_account_data past the tombstone test, with the branch on
\* data.len() > DATA_SIZE_CAN_FIT decided by streamed
hash_fields(a, streamed) ==
    LET buffer0 == to_le_bytes(a.lamports) \o to_le_bytes(a.rent_epoch)
        hasher1 == IF streamed
                   THEN HasherUpdate(HasherUpdate(HasherNew, buffer0), a.data)
                   ELSE HasherNew
        buffer1 == IF streamed THEN buffer_clear(buffer0) ELSE buffer0 \o a.data
        buffer2 == (buffer1 \o <<exec_flag(a.executable)>>) \o a.owner \o a.pubkey
        hasher2 == HasherUpdate(hasher1, buffer2)
    IN  [digest |-> HasherFinalize(hasher2), updates |-> hasher2.updates,
         buffered |-> Len(buffer2)]

\* hash_account_data(lamports, owner, executable, rent_epoch, data, pubkey)
hash_account_data(a) ==
    IF IsZeroLamports(a.lamports)
    THEN [digest |-> HashDefault, updates |-> 0, buffered |-> 0]
    ELSE hash_fields(a, Len(a.data) > DATA_SIZE_CAN_FIT)

NotHashed == [digest |-> HashDefault, updates |-> -1, buffered |-> 0]

NoPrev == [field |-> "none"]

\* Account::default() and the address it is stored under
InitHash ==
    /\ hacct \in [lamports : {0}, rent_epoch : {0}, data : {<<>>}, executable : {FALSE},
                  owner : {PubkeyDefault}, pubkey : HashKeys]
    /\ hres = NotHashed
    /\ hprev = NoPrev

\* hash_account(account, pubkey)
hash_account ==
    /\ hres = NotHashed
    /\ hres' = hash_account_data(hacct)
    /\ UNCHANGED <<hacct, hprev, cowVars, mk, lamVars, convVars, uq>>

\* one field of a hashed account, or its address, changes to v
SetField(field, v) ==
    /\ hres # NotHashed
    /\ hacct[field] # v
    /\ hprev' = [field |-> field, acct |-> hacct, digest |-> hres.digest]
    /\ hacct' = [hacct EXCEPT ![field] = v]
    /\ hres' = NotHashed
    /\ UNCHANGED <<cowVars, mk, lamVars, convVars, uq>>

\* WritableAccount::set_lamports
set_lamports(v) ==
    /\ v \in HashLamports
    /\ SetField("lamports", v)

\* WritableAccount::set_rent_epoch
set_rent_epoch(v) ==
    /\ v \in HashEpochs
    /\ SetField("rent_epoch", v)

\* WritableAccount::set_executable
set_executable(v) ==
    /\ v \in BOOLEAN
    /\ SetField("executable", v)

\* WritableAccount::set_owner
set_owner(v) ==
    /\ v \in HashKeys
    /\ SetField("owner", v)

\* AccountSharedData::set_data_from_slice, seen through data()
set_payload(v) ==
    /\ v \in HashPayloads
    /\ SetField("data", v)

\* the account is stored under another address
set_pubkey(v) ==
    /\ v \in HashKeys
    /\ SetField("pubkey", v)

NextHash ==
    \/ hash_account
    \/ \E v \in HashLamports : set_lamports(v)
    \/ \E v \in HashEpochs : set_rent_epoch(v)
    \/ \E v \in BOOLEAN : set_executable(v)
    \/ \E v \in HashKeys : set_owner(v)
    \/ \E v \in HashPayloads : set_payload(v)
    \/ \E v \in HashKeys : set_pubkey(v)

\* hash variables while another specification runs
ParkedHash ==
    /\ hacct = [lamports |-> 0, rent_epoch |-> 0, data |-> <<>>, executable |-> FALSE,
                owner |-> PubkeyDefault, pubkey |-> PubkeyDefault]
    /\ hres = NotHashed
    /\ hprev = NoPrev

(***************************************************************************)
(* Account hasher claims.                                                  *)
(***************************************************************************)
Hashed == hres # NotHashed

\* the byte stream lamports || rent_epoch || payload || exec || owner || address
WireBytes(a) ==
    to_le_bytes(a.lamports) \o to_le_bytes(a.rent_epoch) \o a.data
        \o <<IF a.executable THEN 1 ELSE 0>> \o a.owner \o a.pubkey

\* C5: a zero-lamport account hashes to the all-zero digest whatever its other
\* fields and its address are, so two zero-lamport accounts hash alike
C5_ZeroLamportsDefaultDigest ==
    (Hashed /\ hacct.lamports = 0) =>
        /\ hres.digest = HashDefault
        /\ (hprev # NoPrev /\ hprev.acct.lamports = 0) => hprev.digest = hres.digest

\* two zero-lamport accounts that differ in a long payload were both hashed
C5_Witness ==
    /\ Hashed /\ hacct.lamports = 0 /\ hres.digest = HashDefault
    /\ hprev # NoPrev /\ hprev.acct.lamports = 0 /\ hprev.field = "data"
    /\ Len(hacct.data) > DATA_SIZE_CAN_FIT /\ hacct.owner # PubkeyDefault

C7_OneFieldChangesDigest ==
    (Hashed /\ hprev # NoPrev /\ hacct.lamports # 0 /\ hprev.acct.lamports # 0) =>
        /\ hprev.acct # hacct
        /\ hprev.digest # hres.digest
        /\ hprev.digest.of # hres.digest.of

\* the payload lost its last byte, which equalled the executable byte that
\* now stands where it stood, and the digest changed
C7_Witness ==
    /\ Hashed /\ hprev # NoPrev /\ hprev.field = "data"
    /\ hacct.lamports # 0 /\ hacct.executable
    /\ hprev.acct.data = hacct.data \o <<1>>
    /\ hprev.digest # hres.digest

(***************************************************************************)
(* AccountsHasher.  Hasher is the incremental hasher of crate::hash; a     *)
(* digest is modelled by the sequence of 32-byte digests it was fed.       *)
(***************************************************************************)
MaxItems == 17      \* most (pubkey, hash) pairs given to the accumulator
MaxFanout == 16     \* fanouts run 0..MaxFanout
MaxDepth == 6       \* most nested calls of compute_merkle_root_loop followed
PermItems == 3      \* inputs of up to PermItems pairs come in every order

MERKLE_FANOUT == 16

\* the account hash of the account stored under the k-th pubkey
LeafHash(k) == [alg |-> "leaf", of |-> <<k>>]

\* Hasher::default()
HasherDefault == <<>>

\* Hasher::hash(h.as_ref()): the 32 bytes of digest h are appended
HasherHash(hs, h) == Append(hs, h)

\* Hasher::result()
HasherResult(hs) == [alg |-> "sha256", of |-> hs]

\* how many of the accounts, the first ones by pubkey, hold no lamports: their
\* account hash is Hash::default() (hash_account_data)
ZeroCounts == {0, 2}

\* the account hash stored with the k-th pubkey
HashOfKey(k, zeros) == IF k <= zeros THEN HashDefault ELSE LeafHash(k)

\* (Pubkey, Hash) as compute_merkle_root takes it
HashPair(k, zeros) == <<PubkeyOfCounter(k), HashOfKey(k, zeros)>>

\* (Pubkey, AccountHash) as accumulate_account_hashes takes it
AccountHashPair(k, zeros) == <<PubkeyOfCounter(k), <<HashOfKey(k, zeros)>>>>

\* the pubkeys 1..n in ascending or descending order
KeyOrder(n, order) == [i \in 1..n |-> IF order = "asc" THEN i ELSE n + 1 - i]

\* every order of the pubkeys 1..n
AllOrders(n) == {p \in [1..n -> 1..n] : \A i, j \in 1..n : p[i] = p[j] => i = j}

\* the orders in which a caller hands over n pairs
Orders(n) ==
    IF n <= PermItems THEN AllOrders(n)
    ELSE {KeyOrder(n, "asc"), KeyOrder(n, "desc")}

\* Ord for Pubkey: byte-wise lexicographic order of the 32 bytes
PubkeyLess(a, b) ==
    \E i \in 1..PUBKEY_BYTES : a[i] < b[i] /\ \A j \in 1..(i - 1) : a[j] = b[j]

\* hashes.sort_unstable_by(|a, b| a.0.cmp(&b.0)) on pairs of distinct pubkeys
RECURSIVE InsertPair(_, _)
InsertPair(sorted, p) ==
    IF sorted = <<>> THEN <<p>>
    ELSE IF PubkeyLess(p[1], Head(sorted)[1]) THEN <<p>> \o sorted
    ELSE <<Head(sorted)>> \o InsertPair(Tail(sorted), p)

\* a sort that leaves the pairs as they came
SortByPubkey_Unsorted(pairs) == pairs

RECURSIVE SortByPubkey(_)
SortByPubkey(pairs) ==
    IF pairs = <<>> THEN <<>>
    ELSE InsertPair(SortByPubkey(SubSeq(pairs, 1, Len(pairs) - 1)), pairs[Len(pairs)])

\* an emptiness test that never fires
is_empty_Never(hashes) == FALSE

\* hashes.is_empty()
is_empty(hashes) == Len(hashes) = 0

\* a div_ceil that rounds down
div_ceil_Floor(x, y) == x \div y

\* AccountsHasher::div_ceil(x, y), y > 0
div_ceil(x, y) == IF x % y # 0 THEN (x \div y) + 1 ELSE x \div y

Min(a, b) == IF a < b THEN a ELSE b

\* the extractor closures: |t| &t.1, |i| &i.1 .0, and |t| t in the recursion
Extract(item, kind) ==
    IF kind = "pair" THEN item[2]
    ELSE IF kind = "account" THEN item[2][1]
    ELSE item

\* the closure mapped over 0..chunks: the digest of chunk i (from 0)
ChunkStart(i, fanout) == i * fanout

ChunkEnd(i, fanout, total) == Min(ChunkStart(i, fanout) + fanout, total)

\* a chunk digest that hands back the chunk's first item unhashed
ChunkDigest_Unhashed(hashes, kind, i, fanout) ==
    Extract(hashes[ChunkStart(i, fanout) + 1], kind)

ChunkDigest(hashes, kind, i, fanout) ==
    LET start_index == ChunkStart(i, fanout)
        end_index == ChunkEnd(i, fanout, Len(hashes))
        fed == [j \in 1..(end_index - start_index) |->
                    Extract(hashes[start_index + j], kind)]
    IN  HasherResult(HasherDefault \o fed)

\* result: the next level
NextLevel(hashes, kind, fanout) ==
    [c \in 1..div_ceil(Len(hashes), fanout) |-> ChunkDigest(hashes, kind, c - 1, fanout)]

\* the sizes of the chunks of that level, for the record
ChunkSizes(total, fanout) ==
    [c \in 1..div_ceil(total, fanout) |->
        ChunkEnd(c - 1, fanout, total) - ChunkStart(c - 1, fanout)]

\* a test for the root that never holds
result_is_root_Never(result) == FALSE

\* compute_merkle_root_loop: result.len() == 1
result_is_root(result) == Len(result) = 1

NoRoot == [alg |-> "none", of |-> <<>>]

MkIdle ==
    [pc |-> "idle", entry |-> "none", input |-> <<>>, fanout |-> 0, kind |-> "hash",
     hashes |-> <<>>, result |-> <<>>, depth |-> 0, shape |-> <<>>, root |-> NoRoot]

InitMerkle == mk = MkIdle

\* AccountsHasher::compute_merkle_root(hashes, fanout): enters the loop with |t| &t.1
compute_merkle_root(n, order, zeros, fanout) ==
    /\ mk.pc = "idle"
    /\ LET pairs == [i \in 1..n |-> HashPair(order[i], zeros)]
       IN  mk' = [mk EXCEPT !.pc = "loop", !.entry = "compute_merkle_root",
                            !.input = pairs, !.fanout = fanout, !.kind = "pair",
                            !.hashes = pairs]
    /\ UNCHANGED <<cowVars, hashVars, lamVars, convVars, uq>>

\* AccountsHasher::accumulate_account_hashes(hashes): sorts by pubkey, then
\* enters the loop with MERKLE_FANOUT and |i| &i.1 .0
accumulate_account_hashes(n, order, zeros) ==
    /\ mk.pc = "idle"
    /\ LET pairs == [i \in 1..n |-> AccountHashPair(order[i], zeros)]
       IN  mk' = [mk EXCEPT !.pc = "loop", !.entry = "accumulate_account_hashes",
                            !.input = pairs, !.fanout = MERKLE_FANOUT, !.kind = "account",
                            !.hashes = SortByPubkey(pairs)]
    /\ UNCHANGED <<cowVars, hashVars, lamVars, convVars, uq>>

\* the hashes argument of the call of compute_merkle_root_loop that runs next:
\* the caller's Vec<T>, or the Vec<Hash> that compute_merkle_root_recurse passes
LoopArg == IF mk.kind = "hash" THEN mk.result ELSE mk.hashes

\* one call of compute_merkle_root_loop(hashes, fanout, extractor): the early
\* return on no hashes, the division by zero, or one level reduced and then
\* either the return of result[0] or compute_merkle_root_recurse(result, fanout)
compute_merkle_root_loop ==
    /\ mk.pc = "loop"
    /\ mk.depth < MaxDepth
    /\ IF is_empty(LoopArg)
       THEN mk' = [mk EXCEPT !.pc = "done", !.depth = @ + 1,
                             !.root = HasherResult(HasherDefault)]
       ELSE IF mk.fanout = 0
       THEN mk' = [mk EXCEPT !.pc = "panic", !.depth = @ + 1]
       ELSE LET result == NextLevel(LoopArg, mk.kind, mk.fanout)
                shape == Append(mk.shape, ChunkSizes(Len(LoopArg), mk.fanout))
            IN  IF result_is_root(result)
                THEN mk' = [mk EXCEPT !.pc = "done", !.depth = @ + 1, !.shape = shape,
                                      !.result = result, !.root = result[1]]
                ELSE mk' = [mk EXCEPT !.depth = @ + 1, !.shape = shape,
                                      !.result = result, !.kind = "hash"]
    /\ UNCHANGED <<cowVars, hashVars, lamVars, convVars, uq>>

NextMerkle ==
    \/ \E n \in 0..MaxItems, zeros \in ZeroCounts, fanout \in 0..MaxFanout :
          \E order \in Orders(n) : compute_merkle_root(n, order, zeros, fanout)
    \/ \E n \in 0..MaxItems, zeros \in ZeroCounts :
          \E order \in Orders(n) : accumulate_account_hashes(n, order, zeros)
    \/ compute_merkle_root_loop

(***************************************************************************)
(* Claims about the Merkle root.                                           *)
(***************************************************************************)
\* the digest of the i-th pair as the caller supplied it
InputDigest(i) ==
    IF mk.entry = "accumulate_account_hashes" THEN mk.input[i][2][1] ELSE mk.input[i][2]

SuppliedLeaves == [i \in 1..Len(mk.input) |-> InputDigest(i)]

\* address a comes before address b: at the first byte where they differ
AddrBefore(a, b) ==
    /\ a # b
    /\ LET d == CHOOSE i \in 1..Len(a) : a[i] # b[i] /\ \A j \in 1..(i - 1) : a[j] = b[j]
       IN  a[d] < b[d]

AddressSorted(pairs) ==
    \A i \in 1..(Len(pairs) - 1) : AddrBefore(pairs[i][1], pairs[i + 1][1])

\* the place of the i-th supplied pair among the addresses
Rank(i) ==
    1 + Cardinality({j \in 1..Len(mk.input) : AddrBefore(mk.input[j][1], mk.input[i][1])})

\* the supplied digests in ascending order of their addresses
SortedLeaves ==
    [r \in 1..Len(mk.input) |-> InputDigest(CHOOSE i \in 1..Len(mk.input) : Rank(i) = r)]

\* the digests entering the first level, in the order they are hashed
Leaves == IF mk.entry = "accumulate_account_hashes" THEN SortedLeaves ELSE SuppliedLeaves

Digest(fed) == [alg |-> "sha256", of |-> fed]

Ceil(n, f) == (n + f - 1) \div f

\* one level of the tree over the digest list ds, written from its definition
TreeLevel(ds, f) ==
    [c \in 1..Ceil(Len(ds), f) |->
        Digest(SubSeq(ds, (c - 1) * f + 1, Min(c * f, Len(ds))))]

RECURSIVE TreeRoot(_, _)
TreeRoot(ds, f) ==
    IF Len(TreeLevel(ds, f)) = 1 THEN TreeLevel(ds, f)[1]
    ELSE TreeRoot(TreeLevel(ds, f), f)

RECURSIVE SumSeq(_)
SumSeq(q) == IF q = <<>> THEN 0 ELSE Head(q) + SumSeq(Tail(q))

\* the number of items the level reduced at depth d started from
LevelInput(d) == IF d = 1 THEN Len(mk.input) ELSE Len(mk.shape[d - 1])

SinglePair ==
    /\ mk.entry = "compute_merkle_root"
    /\ Len(mk.input) = 1
    /\ mk.fanout >= 2
    /\ mk.depth >= 1

\* C8 as stated: the root of a single pair is that pair's own digest.
C8_AsStated == SinglePair => mk.pc = "done" /\ mk.root = mk.input[1][2]

\* C8: compute_merkle_root on exactly one (address, digest) pair returns, for
\* every fanout >= 2, after one level of one chunk of one item, the digest of a
\* hasher fed that pair's digest, which is not the pair's digest itself.
C8_SinglePairRootIsHashOfDigest ==
    SinglePair =>
        /\ mk.pc = "done"
        /\ mk.depth = 1
        /\ mk.shape = <<<<1>>>>
        /\ mk.root = Digest(<<mk.input[1][2]>>)
        /\ mk.root # mk.input[1][2]

C8_Witness ==
    /\ SinglePair
    /\ mk.pc = "done"
    /\ mk.fanout = MERKLE_FANOUT
    /\ mk.root = Digest(<<LeafHash(1)>>)

\* C9: for n >= 1 items and fanout f, every level is cut into consecutive
\* chunks of f items (the last one possibly shorter), so that it yields
\* ceil(n / f) digests, one per chunk; the levels repeat until one digest
\* remains and that digest is the root.  17 items with fanout 16 take two
\* levels (chunks of 16 and 1, then one chunk of 2); 16 items take one.
C9_LevelReduction ==
    (Len(mk.input) >= 1 /\ mk.fanout >= 1) =>
        /\ \A d \in 1..Len(mk.shape) :
              /\ Len(mk.shape[d]) = Ceil(LevelInput(d), mk.fanout)
              /\ SumSeq(mk.shape[d]) = LevelInput(d)
              /\ \A c \in 1..Len(mk.shape[d]) :
                    /\ mk.shape[d][c] >= 1
                    /\ mk.shape[d][c] <= mk.fanout
                    /\ c < Len(mk.shape[d]) => mk.shape[d][c] = mk.fanout
              /\ (d < Len(mk.shape)) => Len(mk.shape[d]) > 1
        /\ (mk.depth >= 1) => Len(mk.shape) = mk.depth /\ Len(mk.result) = Len(mk.shape[mk.depth])
        /\ (mk.pc = "done") => Len(mk.shape[mk.depth]) = 1
        /\ (mk.pc = "done" /\ mk.fanout >= 2) => mk.root = TreeRoot(Leaves, mk.fanout)
        /\ (mk.pc = "loop" /\ mk.depth >= 1) => Len(mk.result) > 1
        /\ (mk.pc = "done" /\ Len(mk.input) = 17 /\ mk.fanout = 16) =>
              /\ mk.shape = << <<16, 1>>, <<2>> >>
              /\ mk.root = Digest(<<Digest(SubSeq(Leaves, 1, 16)), Digest(<<Leaves[17]>>)>>)
        /\ (mk.pc = "done" /\ Len(mk.input) = 16 /\ mk.fanout = 16) =>
              /\ mk.shape = << <<16>> >>
              /\ mk.root = Digest(Leaves)

C9_Witness ==
    /\ mk.pc = "done"
    /\ Len(mk.input) = 17
    /\ mk.fanout = 16
    /\ mk.depth = 2
    /\ mk.shape = << <<16, 1>>, <<2>> >>

\* C10: on an empty input both compute_merkle_root, whatever the fanout, and
\* accumulate_account_hashes return at once the result of a fresh hasher, the
\* digest of the empty byte stream; no chunk count is computed and no level
\* is reduced.
C10_EmptyInputDefaultDigest ==
    (mk.pc # "idle" /\ Len(mk.input) = 0 /\ mk.depth >= 1) =>
        /\ mk.pc = "done"
        /\ mk.depth = 1
        /\ mk.shape = <<>>
        /\ mk.root = [alg |-> "sha256", of |-> <<>>]

C10_Witness ==
    /\ mk.pc = "done"
    /\ mk.entry = "accumulate_account_hashes"
    /\ mk.input = <<>>
    /\ mk.root = HasherResult(HasherDefault)

\* C11 as stated: compute_merkle_root returns the root of the address-sorted
\* pairs only when the supplied pairs are address-sorted.
C11_AsStated ==
    (/\ mk.entry = "compute_merkle_root"
     /\ mk.pc = "done"
     /\ mk.fanout >= 2
     /\ Len(mk.input) >= 1
     /\ mk.root = TreeRoot(SortedLeaves, mk.fanout)) => AddressSorted(mk.input)

\* C11: accumulate_account_hashes puts the pairs in ascending byte-wise order
\* of their addresses and reduces them with fanout 16, so its root is the
\* root of the address-sorted digests whatever the order of the input;
\* compute_merkle_root reduces the pairs in the order supplied, and its root
\* is the root of the address-sorted digests exactly when the supplied
\* sequence of digests equals the address-sorted one.
C11_SortedRootAnyOrder ==
    /\ (mk.entry = "accumulate_account_hashes") =>
          /\ mk.fanout = MERKLE_FANOUT
          /\ (mk.depth = 0) =>
                /\ AddressSorted(mk.hashes)
                /\ Len(mk.hashes) = Len(mk.input)
                /\ \A i \in 1..Len(mk.input) :
                      \E j \in 1..Len(mk.hashes) : mk.hashes[j] = mk.input[i]
          /\ (mk.pc = "done" /\ Len(mk.input) >= 1) =>
                mk.root = TreeRoot(SortedLeaves, MERKLE_FANOUT)
    /\ (mk.entry = "compute_merkle_root") =>
          /\ (mk.depth = 0) => mk.hashes = mk.input
          /\ (mk.pc = "done" /\ Len(mk.input) >= 1 /\ mk.fanout >= 2) =>
                /\ mk.root = TreeRoot(SuppliedLeaves, mk.fanout)
                /\ (mk.root = TreeRoot(SortedLeaves, mk.fanout))
                      <=> (SuppliedLeaves = SortedLeaves)

C11_Witness ==
    /\ mk.entry = "accumulate_account_hashes"
    /\ mk.pc = "done"
    /\ Len(mk.input) = 3
    /\ ~AddressSorted(mk.input)
    /\ SuppliedLeaves # SortedLeaves
    /\ mk.root = Digest(SortedLeaves)

\* C17: for a non-empty input and a fanout >= 2 the reduction terminates: a
\* level of more than one item is followed by a strictly shorter level, one
\* level is computed after the other, and the recursion ends with exactly one
\* digest.  With fanout 0 and a non-empty input the call fails on the
\* division by zero in div_ceil and returns no digest; with fanout 1 and two
\* or more items no level is shorter than the one before and no digest is
\* ever returned.
C17_Termination ==
    /\ [](IF Len(mk.input) >= 1 /\ mk.fanout >= 2
          THEN /\ Len(mk.shape) = mk.depth
               /\ mk.pc # "panic"
               /\ \A d \in 1..Len(mk.shape) :
                     LevelInput(d) > 1 => Len(mk.shape[d]) < LevelInput(d)
               /\ IF mk.pc = "done"
                  THEN Len(mk.result) = 1 /\ mk.root = mk.result[1] /\ mk.root # NoRoot
                  ELSE mk.root = NoRoot
          ELSE TRUE)
    /\ [](IF Len(mk.input) >= 1 /\ mk.fanout = 0 /\ mk.pc # "idle"
          THEN /\ mk.pc # "done"
               /\ mk.root = NoRoot
               /\ mk.depth >= 1 => mk.pc = "panic" /\ mk.depth = 1 /\ mk.shape = <<>>
          ELSE TRUE)
    /\ [](IF Len(mk.input) >= 2 /\ mk.fanout = 1
          THEN /\ mk.pc = "loop"
               /\ mk.root = NoRoot
               /\ Len(LoopArg) = Len(mk.input)
               /\ \A d \in 1..Len(mk.shape) : Len(mk.shape[d]) = Len(mk.input)
          ELSE TRUE)
    /\ (mk.pc = "loop" /\ Len(mk.input) >= 1 /\ mk.fanout >= 2) ~> (mk.pc = "done")

C17_Witness ==
    /\ mk.pc = "done"
    /\ Len(mk.input) = 17
    /\ mk.fanout = 2
    /\ mk.depth = 5
    /\ Len(mk.result) = 1

(***************************************************************************)
(* Lamports arithmetic of WritableAccount.  A u64 is kept at its width as   *)
(* four 16-bit limbs, least significant first.                             *)
(***************************************************************************)
MaxOps == 2         \* lamports adjustments in a row
NearEdge == 1       \* operands run 0..NearEdge and u64::MAX - NearEdge..u64::MAX

LimbBase == 256 * 256

U64Small(n) == <<n, 0, 0, 0>>

U64_MAX == <<LimbBase - 1, LimbBase - 1, LimbBase - 1, LimbBase - 1>>

\* u64::MAX - n for a small n
U64NearMax(n) == <<LimbBase - 1 - n, LimbBase - 1, LimbBase - 1, LimbBase - 1>>

\* a + b limb by limb: the sums with their carries
AddSums(a, b) ==
    LET s1 == a[1] + b[1]
        s2 == a[2] + b[2] + (s1 \div LimbBase)
        s3 == a[3] + b[3] + (s2 \div LimbBase)
        s4 == a[4] + b[4] + (s3 \div LimbBase)
    IN  <<s1, s2, s3, s4>>

\* a - b limb by limb: the differences with their borrows
SubDiffs(a, b) ==
    LET d1 == a[1] - b[1]
        d2 == a[2] - b[2] - (IF d1 < 0 THEN 1 ELSE 0)
        d3 == a[3] - b[3] - (IF d2 < 0 THEN 1 ELSE 0)
        d4 == a[4] - b[4] - (IF d3 < 0 THEN 1 ELSE 0)
    IN  <<d1, d2, d3, d4>>

Wrapped(q) == [i \in 1..4 |-> (q[i] + LimbBase) % LimbBase]

None == <<>>

Some(v) == <<v>>

\* an addition that wraps around instead of reporting the overflow
u64_checked_add_Wrapping(a, b) == Some(Wrapped(AddSums(a, b)))

\* u64::checked_add
u64_checked_add(a, b) ==
    IF AddSums(a, b)[4] >= LimbBase THEN None ELSE Some(Wrapped(AddSums(a, b)))

\* u64::checked_sub
u64_checked_sub(a, b) ==
    IF SubDiffs(a, b)[4] < 0 THEN None ELSE Some(Wrapped(SubDiffs(a, b)))

\* u64::saturating_add
u64_saturating_add(a, b) ==
    IF AddSums(a, b)[4] >= LimbBase THEN U64_MAX ELSE Wrapped(AddSums(a, b))

\* u64::saturating_sub
u64_saturating_sub(a, b) ==
    IF SubDiffs(a, b)[4] < 0 THEN U64Small(0) ELSE Wrapped(SubDiffs(a, b))

\* the lamports a caller passes or an account starts with
LamportValues ==
    {U64Small(n) : n \in 0..NearEdge} \cup {U64NearMax(n) : n \in 0..NearEdge}
        \cup {<<0, 1, 0, 0>>, <<LimbBase - 1, 0, 0, 0>>, <<0, 0, 0, LimbBase \div 2>>}

\* the accounts whose lamports are adjusted: an Account or an AccountSharedData
LamAccounts ==
    {[kind |-> k, lamports |-> l, data |-> r.data, owner |-> r.owner,
      executable |-> r.executable, rent_epoch |-> r.rent_epoch] :
        k \in {"Account", "AccountSharedData"}, l \in LamportValues,
        r \in {[data |-> <<>>, owner |-> PubkeyDefault, executable |-> FALSE, rent_epoch |-> 0],
               [data |-> <<1, 0>>, owner |-> PubkeyOfCounter(1), executable |-> TRUE,
                rent_epoch |-> 1]}}

NoAdjust == [op |-> "none", x |-> U64Small(0), before |-> <<>>, result |-> "none", ops |-> 0]

InitLam == lacct \in LamAccounts /\ lres = NoAdjust

ParkedLam == lacct = <<>> /\ lres = NoAdjust

\* WritableAccount::set_lamports, for Account and for AccountSharedData
Lam_set_lamports(a, lamports) == [a EXCEPT !.lamports = lamports]

\* the `?` on ok_or(err): the method returns err before set_lamports is reached
Adjust(op, x, checked, err) ==
    /\ lres.ops < MaxOps
    /\ IF checked = None
       THEN /\ lacct' = lacct
            /\ lres' = [op |-> op, x |-> x, before |-> lacct, result |-> err,
                        ops |-> lres.ops + 1]
       ELSE /\ lacct' = Lam_set_lamports(lacct, checked[1])
            /\ lres' = [op |-> op, x |-> x, before |-> lacct, result |-> "Ok",
                        ops |-> lres.ops + 1]
    /\ UNCHANGED <<cowVars, hashVars, mk, convVars, uq>>

\* WritableAccount::checked_add_lamports
checked_add_lamports(x) ==
    /\ x \in LamportValues
    /\ Adjust("checked_add_lamports", x, u64_checked_add(lacct.lamports, x), "ArithmeticOverflow")

\* WritableAccount::checked_sub_lamports
checked_sub_lamports(x) ==
    /\ x \in LamportValues
    /\ Adjust("checked_sub_lamports", x, u64_checked_sub(lacct.lamports, x), "ArithmeticUnderflow")

\* WritableAccount::saturating_add_lamports
saturating_add_lamports(x) ==
    /\ x \in LamportValues
    /\ Adjust("saturating_add_lamports", x, Some(u64_saturating_add(lacct.lamports, x)), "none")

\* WritableAccount::saturating_sub_lamports
saturating_sub_lamports(x) ==
    /\ x \in LamportValues
    /\ Adjust("saturating_sub_lamports", x, Some(u64_saturating_sub(lacct.lamports, x)), "none")

NextLam ==
    \/ \E x \in LamportValues : checked_add_lamports(x)
    \/ \E x \in LamportValues : checked_sub_lamports(x)
    \/ \E x \in LamportValues : saturating_add_lamports(x)
    \/ \E x \in LamportValues : saturating_sub_lamports(x)

(***************************************************************************)
(* Claims about the lamports arithmetic.                                   *)
(***************************************************************************)
\* the value of a u64 modulo p, p < 2^15
ValMod(a, p) ==
    LET r == LimbBase % p
    IN  ((a[1] % p) + (a[2] % p) * r + (((a[3] % p) * r) % p) * r
            + (((((a[4] % p) * r) % p) * r) % p) * r) % p

\* primes whose product exceeds 2^65: a number below 2^65 is fixed by its residues
Primes == {32749, 32719, 32717, 32713, 32707}

\* a < b as numbers
U64Less(a, b) ==
    \E i \in 1..4 : a[i] < b[i] /\ \A j \in (i + 1)..4 : a[j] = b[j]

\* u64::MAX - b: no limb borrows
Complement(b) == [i \in 1..4 |-> LimbBase - 1 - b[i]]

\* a + b > u64::MAX
Overflows(a, b) == U64Less(Complement(b), a)

\* c = a + b as numbers
IsSum(c, a, b) == \A p \in Primes : ValMod(c, p) = (ValMod(a, p) + ValMod(b, p)) % p

Adjusted == lres.op # "none"

FrameKept ==
    /\ lacct.kind = lres.before.kind
    /\ lacct.data = lres.before.data
    /\ lacct.owner = lres.before.owner
    /\ lacct.executable = lres.before.executable
    /\ lacct.rent_epoch = lres.before.rent_epoch

\* C12: checked_add_lamports(x) fails with ArithmeticOverflow and keeps the
\* lamports when lamports + x > u64::MAX and else sets lamports + x and
\* returns Ok; checked_sub_lamports(x) fails with ArithmeticUnderflow and
\* keeps the lamports when x > lamports and else sets lamports - x; the
\* saturating forms never fail and clamp to u64::MAX and to 0.  None of the
\* four changes data, owner, executable or rent_epoch.
C12_LamportsArithmetic ==
    Adjusted =>
        LET old == lres.before.lamports
            new == lacct.lamports
            x == lres.x
        IN  /\ FrameKept
            /\ (lres.op = "checked_add_lamports") =>
                  IF Overflows(old, x)
                  THEN lres.result = "ArithmeticOverflow" /\ new = old
                  ELSE lres.result = "Ok" /\ IsSum(new, old, x)
            /\ (lres.op = "checked_sub_lamports") =>
                  IF U64Less(old, x)
                  THEN lres.result = "ArithmeticUnderflow" /\ new = old
                  ELSE lres.result = "Ok" /\ IsSum(old, new, x)
            /\ (lres.op = "saturating_add_lamports") =>
                  /\ lres.result = "Ok"
                  /\ IF Overflows(old, x) THEN new = U64_MAX ELSE IsSum(new, old, x)
            /\ (lres.op = "saturating_sub_lamports") =>
                  /\ lres.result = "Ok"
                  /\ IF U64Less(old, x) THEN new = U64Small(0) ELSE IsSum(old, new, x)

C12_Witness ==
    /\ lres.op = "checked_add_lamports"
    /\ lres.result = "ArithmeticOverflow"
    /\ lres.before.lamports = U64NearMax(0)
    /\ lres.x = U64Small(1)
    /\ lacct = lres.before
    /\ lacct.data # <<>>

(***************************************************************************)
(* Account and AccountSharedData: conversions, duplication through a Ref,  *)
(* serialize_data.                                                         *)
(***************************************************************************)
\* the fields besides data that accounts are made with
FieldSamples ==
    {[lamports |-> 0, owner |-> PubkeyDefault, executable |-> FALSE, rent_epoch |-> 0],
     [lamports |-> 5, owner |-> PubkeyOfCounter(1), executable |-> TRUE, rent_epoch |-> 1]}

\* the ReadableAccount view of a value with fields f and payload bytes
Readable(f, bytes) ==
    [lamports |-> f.lamports, data |-> bytes, owner |-> f.owner,
     executable |-> f.executable, rent_epoch |-> f.rent_epoch]

\* ReadableAccount for AccountSharedData and for Ref<AccountSharedData>
ReadShared(h) == Readable(flds[h], data(h))

\* ReadableAccount for Account
ReadAccount == Readable(owned.fields, VecSlice(owned.data))

\* accounts_equal(me, other)
accounts_equal(me, other) ==
    /\ me.lamports = other.lamports
    /\ me.executable = other.executable
    /\ me.rent_epoch = other.rent_epoch
    /\ me.owner = other.owner
    /\ me.data = other.data

\* a call on the Account starts: what the AccountSharedData holders see is recorded
EnterOwned(op) ==
    [NoCall EXCEPT !.op = op, !.pc = "done", !.before = [g \in Holder |-> View(g)]]

\* Account::create / Account { .. }
Account_create(f, bytes) ==
    /\ call.pc = "idle"
    /\ ~owned.live
    /\ owned' = [live |-> TRUE, fields |-> f, data |-> VecFrom(bytes, Len(bytes))]
    /\ UNCHANGED <<cowVars, hashVars, mk, lamVars, flds, out, uq>>

\* drop(Account)
Account_drop ==
    /\ call.pc = "idle"
    /\ owned.live
    /\ owned' = NoAccount
    /\ UNCHANGED <<cowVars, hashVars, mk, lamVars, flds, out, uq>>

\* the conversion takes the value the conversion before it has just returned
Chained(op, h) == call.pc = "done" /\ out.op = op /\ out.h = h

\* a conversion to Account that forgets the rent epoch
FieldsOfShared_NoEpoch(f) ==
    [lamports |-> f.lamports, owner |-> f.owner, executable |-> f.executable,
     rent_epoch |-> 0]

\* From<AccountSharedData> for Account: lamports, owner, executable, rent_epoch
FieldsOfShared(f) ==
    [lamports |-> f.lamports, owner |-> f.owner, executable |-> f.executable,
     rent_epoch |-> f.rent_epoch]

\* From<Account> for AccountSharedData: lamports, owner, executable, rent_epoch
FieldsOfAccount(f) ==
    [lamports |-> f.lamports, owner |-> f.owner, executable |-> f.executable,
     rent_epoch |-> f.rent_epoch]

\* From<Account> for AccountSharedData: data: Arc::new(other.data); the
\* Account is consumed
AccountSharedData_from(h) ==
    /\ owned.live
    /\ ~accts[h].live
    /\ call.pc = "idle" \/ Chained("Account_from", h)
    /\ Install([accts EXCEPT ![h] = [live |-> TRUE, data |-> NewArcId(arcs)]],
               ArcNew(arcs, owned.data))
    /\ flds' = [flds EXCEPT ![h] = FieldsOfAccount(owned.fields)]
    /\ owned' = NoAccount
    /\ call' = Enter("AccountSharedData_from", h)
    /\ out' = [NoOut EXCEPT !.op = "AccountSharedData_from", !.h = h, !.src = ReadAccount,
                            !.trip = Chained("Account_from", h), !.orig = out.src]
    /\ UNCHANGED <<hashVars, mk, lamVars, uq>>

\* a make_mut that hands out the shared Vec
Arc_make_mut_InPlace(h) == [arcs |-> arcs, id |-> accts[h].data]

\* From<AccountSharedData> for Account: Arc::make_mut(&mut other.data)
Arc_make_mut(h) == data_mut(h)

\* From<AccountSharedData> for Account: std::mem::take(account_data) moves the
\* Vec out of the Arc that make_mut left uniquely held and leaves an empty
\* Vec behind; other is dropped when the conversion returns
Account_from(h) ==
    /\ accts[h].live
    /\ ~owned.live
    /\ call.pc = "idle" \/ Chained("AccountSharedData_from", h)
    /\ LET m == Arc_make_mut(h)
           taken == m.arcs[m.id].vec
           left == [m.arcs EXCEPT ![m.id].vec = EmptyVec]
       IN  /\ Install([accts EXCEPT ![h] = [live |-> FALSE, data |-> NoBuf]],
                      ArcDrop(left, m.id))
           /\ owned' = [live |-> TRUE, fields |-> FieldsOfShared(flds[h]), data |-> taken]
           /\ out' = [NoOut EXCEPT !.op = "Account_from", !.h = h, !.src = ReadShared(h),
                                   !.trip = Chained("AccountSharedData_from", h),
                                   !.orig = out.src,
                                   !.cloned = (m.id # accts[h].data)]
    /\ flds' = [flds EXCEPT ![h] = NoFields]
    /\ call' = Enter("Account_from", h)
    /\ UNCHANGED <<hashVars, mk, lamVars, uq>>

\* a duplication that copies the payload, as ReadableAccount's default method does
Arc_clone_data_Copy(src) ==
    [arcs |-> ArcNew(arcs, VecClone(arcs[accts[src].data].vec)), id |-> NewArcId(arcs)]

\* Ref<AccountSharedData>::to_account_shared_data: data: Arc::clone(&self.data)
Arc_clone_data(src) == [arcs |-> ArcClone(arcs, accts[src].data), id |-> accts[src].data]

\* ReadableAccount::to_account_shared_data for Ref<'_, AccountSharedData>
Ref_to_account_shared_data(src, dst) ==
    /\ Idle(src)
    /\ ~accts[dst].live
    /\ LET c == Arc_clone_data(src)
       IN  Install([accts EXCEPT ![dst] = [live |-> TRUE, data |-> c.id]], c.arcs)
    /\ flds' = [flds EXCEPT ![dst] =
                    [lamports |-> ReadShared(src).lamports, owner |-> ReadShared(src).owner,
                     executable |-> ReadShared(src).executable,
                     rent_epoch |-> ReadShared(src).rent_epoch]]
    /\ call' = Enter("Ref_to_account_shared_data", src)
    /\ out' = [NoOut EXCEPT !.op = "Ref_to_account_shared_data", !.h = dst]
    /\ UNCHANGED <<hashVars, mk, lamVars, owned, uq>>

\* a size test that lets everything through
SizeLimitExceeded_Never(size, len) == FALSE

\* shared_serialize_data: bincode::serialized_size(state)? > account.data().len()
SizeLimitExceeded(size, len) == size > len

\* bincode::serialize_into(slice, state): the bytes of state go to the start of
\* the slice, as many as it takes
serialize_into(v, state) ==
    [v EXCEPT !.mem = [i \in 1..Len(v.mem) |-> IF i <= Len(state) THEN state[i] ELSE v.mem[i]]]

serialize_result(v, state) == IF Len(state) > v.len THEN "Io" ELSE "Ok"

\* AccountSharedData::serialize_data(state) = shared_serialize_data(self, state);
\* state is given by its bincode bytes
serialize_data(h, state) ==
    /\ Idle(h)
    /\ state \in Payloads
    /\ call' = [Enter("serialize_data", h) EXCEPT !.arg = state]
    /\ IF SizeLimitExceeded(Len(state), Len(data(h)))
       THEN /\ UNCHANGED <<accts, arcs>>
            /\ out' = [NoOut EXCEPT !.op = "serialize_data", !.h = h, !.src = ReadShared(h),
                                    !.result = "SizeLimit"]
       ELSE /\ WithDataMut(h, serialize_into(MutVec(h), state))
            /\ out' = [NoOut EXCEPT !.op = "serialize_data", !.h = h, !.src = ReadShared(h),
                                    !.result = serialize_result(MutVec(h), state)]
    /\ UNCHANGED <<hashVars, mk, lamVars, flds, owned, uq>>

\* Account::serialize_data(state) = shared_serialize_data(self, state)
Account_serialize_data(state) ==
    /\ call.pc = "idle"
    /\ owned.live
    /\ state \in Payloads
    /\ call' = [EnterOwned("Account_serialize_data") EXCEPT !.arg = state]
    /\ IF SizeLimitExceeded(Len(state), Len(ReadAccount.data))
       THEN /\ UNCHANGED owned
            /\ out' = [NoOut EXCEPT !.op = "Account_serialize_data", !.src = ReadAccount,
                                    !.result = "SizeLimit"]
       ELSE /\ owned' = [owned EXCEPT !.data = serialize_into(owned.data, state)]
            /\ out' = [NoOut EXCEPT !.op = "Account_serialize_data", !.src = ReadAccount,
                                    !.result = serialize_result(owned.data, state)]
    /\ UNCHANGED <<accts, arcs, hashVars, mk, lamVars, flds, uq>>

\* the holders that take part in conversions
ConvHolder == {1, 2}

NextConv ==
    \/ \E f \in FieldSamples, bytes \in Payloads : Account_create(f, bytes)
    \/ Account_drop
    \/ \E h \in ConvHolder : AccountSharedData_from(h)
    \/ \E h \in ConvHolder : Account_from(h)
    \/ \E src, dst \in ConvHolder : to_account_shared_data(src, dst)
    \/ \E src, dst \in ConvHolder : Ref_to_account_shared_data(src, dst)
    \/ \E h \in ConvHolder : drop(h)
    \/ \E h \in ConvHolder, i \in 1..MaxCap, b \in Byte : data_as_mut_slice(h, i, b)
    \/ \E h \in ConvHolder, state \in Payloads : serialize_data(h, state)
    \/ \E state \in Payloads : Account_serialize_data(state)
    \/ Return

(***************************************************************************)
(* Claims about conversions, duplication and serialize_data.               *)
(***************************************************************************)
\* every holder but h reads what it read when the call started
OthersAsBefore(h) == \A g \in Holder \ {h} : View(g) = call.before[g]

\* the live holders of the buffer h holds
HoldersOf(h) == {g \in Holder : accts[g].live /\ accts[g].data = accts[h].data}

\* C13: an Account converted to an AccountSharedData and back is equal to the
\* original in lamports, data, owner, executable and rent_epoch; an
\* AccountSharedData converted to an Account and back is equal to the original
\* under accounts_equal.
C13_RoundTrip ==
    (call.pc = "done" /\ out.trip) =>
        /\ (out.op = "Account_from") =>
              /\ owned.live
              /\ ReadAccount.lamports = out.orig.lamports
              /\ ReadAccount.data = out.orig.data
              /\ ReadAccount.owner = out.orig.owner
              /\ ReadAccount.executable = out.orig.executable
              /\ ReadAccount.rent_epoch = out.orig.rent_epoch
        /\ (out.op = "AccountSharedData_from") =>
              /\ accts[out.h].live
              /\ accounts_equal(out.orig, ReadShared(out.h))

C13_Witness ==
    /\ call.pc = "done"
    /\ out.trip
    /\ out.op = "Account_from"
    /\ Len(out.orig.data) = MaxCap
    /\ out.orig.rent_epoch = 1
    /\ ReadAccount = out.orig

\* C14: converting an AccountSharedData whose buffer other holders share into
\* an Account clones the payload: the Account's data is the payload at the
\* time of the conversion and every other holder still reads its whole payload;
\* a uniquely held buffer is moved into the Account without a copy.
C14_IntoAccountWhenShared ==
    (call.pc = "done" /\ out.op = "Account_from") =>
        /\ owned.live
        /\ ReadAccount.data = out.src.data
        /\ ~accts[out.h].live
        /\ OthersAsBefore(out.h)
        /\ \A g \in call.sharers : accts[g].live /\ data(g) = out.src.data
        /\ out.cloned <=> call.shared
        /\ call.shared <=> (call.sharers # {})

C14_Witness ==
    /\ call.pc = "done"
    /\ out.op = "Account_from"
    /\ call.shared
    /\ out.cloned
    /\ Len(out.src.data) = MaxCap
    /\ \E g \in call.sharers : data(g) = ReadAccount.data

\* C15: to_account_shared_data on an AccountSharedData or on a Ref of one
\* returns a value with equal lamports, data, owner, executable and rent_epoch
\* that holds the same buffer as the source, and is_shared() is then true on
\* both; is_shared() is true exactly when more than one live holder holds the
\* buffer, and it is false again on a holder that has privatised its buffer
\* by a mutation, and on the last holder once the others are dropped.
C15_SharedDuplicate ==
    /\ \A h \in Holder : accts[h].live => (is_shared(h) <=> Cardinality(HoldersOf(h)) > 1)
    /\ (call.pc = "done"
            /\ out.op \in {"to_account_shared_data", "Ref_to_account_shared_data"}) =>
          /\ accts[out.h].live /\ accts[call.h].live
          /\ out.h # call.h
          /\ ReadShared(out.h).lamports = ReadShared(call.h).lamports
          /\ ReadShared(out.h).data = ReadShared(call.h).data
          /\ ReadShared(out.h).owner = ReadShared(call.h).owner
          /\ ReadShared(out.h).executable = ReadShared(call.h).executable
          /\ ReadShared(out.h).rent_epoch = ReadShared(call.h).rent_epoch
          /\ accts[out.h].data = accts[call.h].data
          /\ is_shared(out.h) /\ is_shared(call.h)
          /\ \A g \in Holder \ {call.h, out.h} : View(g) = call.before[g]
    /\ (call.pc = "done" /\ call.op = "data_as_mut_slice") => ~is_shared(call.h)
    /\ (call.pc = "done" /\ call.op = "serialize_data" /\ out.result = "Ok") =>
          ~is_shared(call.h)
    /\ (call.pc = "done" /\ call.op = "drop" /\ Cardinality(call.sharers) = 1) =>
          \A g \in call.sharers : ~is_shared(g)

C15_Witness ==
    /\ call.pc = "done"
    /\ out.op = "Ref_to_account_shared_data"
    /\ is_shared(out.h)
    /\ is_shared(call.h)
    /\ Len(data(out.h)) = MaxCap
    /\ flds[out.h].rent_epoch = 1

\* the payload after state was written at its start
Overwritten(old, state) ==
    state \o SubSeq(old, Len(state) + 1, Len(old))

\* C16: serialize_data(state) on an account whose payload is shorter than the
\* serialised state returns the size-limit error and writes nothing: payload
\* and length are as before and a shared buffer of an AccountSharedData stays
\* shared.  When it fits, the bytes are written at the start of the payload
\* and the length is unchanged.
C16_SerializeData ==
    /\ (call.pc = "done" /\ call.op = "serialize_data") =>
          /\ OthersAsBefore(call.h)
          /\ flds[call.h] = [f \in DOMAIN flds[call.h] |-> out.src[f]]
          /\ IF Len(call.arg) > Len(out.src.data)
             THEN /\ out.result = "SizeLimit"
                  /\ data(call.h) = out.src.data
                  /\ is_shared(call.h) = call.shared
                  /\ \A g \in call.sharers : accts[g].data = accts[call.h].data
             ELSE /\ out.result = "Ok"
                  /\ data(call.h) = Overwritten(out.src.data, call.arg)
                  /\ Len(data(call.h)) = Len(out.src.data)
    /\ (call.pc = "done" /\ call.op = "Account_serialize_data") =>
          /\ \A g \in Holder : View(g) = call.before[g]
          /\ IF Len(call.arg) > Len(out.src.data)
             THEN out.result = "SizeLimit" /\ ReadAccount = out.src
             ELSE /\ out.result = "Ok"
                  /\ ReadAccount = [out.src EXCEPT !.data = Overwritten(out.src.data, call.arg)]

C16_Witness ==
    /\ call.pc = "done"
    /\ call.op = "serialize_data"
    /\ out.result = "SizeLimit"
    /\ call.shared
    /\ is_shared(call.h)
    /\ Len(call.arg) = MaxCap
    /\ Len(data(call.h)) = 1

(***************************************************************************)
(* Pubkey::new_unique.  Threads call it concurrently; a call is the        *)
(* fetch_add on the static counter I followed by the making of the key.    *)
(***************************************************************************)
NumThreads == 2     \* threads calling new_unique
MaxCalls == 3       \* calls made in all

Thread == 1..NumThreads

\* what the static I holds when the calls looked at begin: 1 in a fresh
\* process, more after earlier calls
CounterStarts == {U64Small(1), U64Small(255), U64Small(LimbBase - 1), U64NearMax(1)}

\* AtomicU64::fetch_add(v): one indivisible step that returns the old value
\* and stores the sum, which wraps around at 2^64
AtomicU64_fetch_add(c, v) == [old |-> c, new |-> Wrapped(AddSums(c, U64Small(v)))]

\* the eight bytes of a u64, least significant first
U64_to_be_bytes_LittleEndian(c) ==
    <<c[1] % 256, c[1] \div 256, c[2] % 256, c[2] \div 256,
      c[3] % 256, c[3] \div 256, c[4] % 256, c[4] \div 256>>

\* i.to_be_bytes(): the eight bytes of a u64, most significant first
U64_to_be_bytes(c) ==
    <<c[4] \div 256, c[4] % 256, c[3] \div 256, c[3] % 256,
      c[2] \div 256, c[2] % 256, c[1] \div 256, c[1] % 256>>

\* b[0..8].copy_from_slice(&i.to_be_bytes()); Self::from(b)
UniquePubkey(i) == U64_to_be_bytes(i) \o Fill(PUBKEY_BYTES - 8, 0)

InitUnique ==
    \E c \in CounterStarts :
        uq = [I |-> c, wrapped |-> FALSE, calls |-> 0, log |-> <<>>,
              pc |-> [t \in Thread |-> "idle"],
              i |-> [t \in Thread |-> U64Small(0)],
              after |-> [t \in Thread |-> 0],
              fresh |-> [t \in Thread |-> FALSE]]

ParkedUnique ==
    uq = [I |-> U64Small(1), wrapped |-> FALSE, calls |-> 0, log |-> <<>>,
          pc |-> [t \in Thread |-> "idle"],
          i |-> [t \in Thread |-> U64Small(0)],
          after |-> [t \in Thread |-> 0],
          fresh |-> [t \in Thread |-> FALSE]]

\* thread t calls Pubkey::new_unique(): the calls returned so far are counted
new_unique_call(t) ==
    /\ uq.pc[t] = "idle"
    /\ uq.calls < MaxCalls
    /\ uq' = [uq EXCEPT !.pc[t] = "called", !.calls = @ + 1, !.after[t] = Len(uq.log)]
    /\ UNCHANGED <<cowVars, hashVars, mk, lamVars, convVars>>

\* let i = I.fetch_add(1)
new_unique_fetch_add(t) ==
    /\ uq.pc[t] = "called"
    /\ LET f == AtomicU64_fetch_add(uq.I, 1)
       IN  uq' = [uq EXCEPT !.pc[t] = "fetched", !.i[t] = f.old, !.I = f.new,
                            !.fresh[t] = ~uq.wrapped,
                            !.wrapped = @ \/ uq.I = U64_MAX]
    /\ UNCHANGED <<cowVars, hashVars, mk, lamVars, convVars>>

\* the key is made of i and returned
new_unique_return(t) ==
    /\ uq.pc[t] = "fetched"
    /\ uq' = [uq EXCEPT !.pc[t] = "idle",
                        !.log = Append(@, [key |-> UniquePubkey(uq.i[t]), thread |-> t,
                                           after |-> uq.after[t], fresh |-> uq.fresh[t]])]
    /\ UNCHANGED <<cowVars, hashVars, mk, lamVars, convVars>>

NextUnique ==
    \/ \E t \in Thread : new_unique_call(t)
    \/ \E t \in Thread : new_unique_fetch_add(t)
    \/ \E t \in Thread : new_unique_return(t)

(***************************************************************************)
(* Claims about Pubkey::new_unique.                                        *)
(***************************************************************************)
\* C18: any two calls of Pubkey::new_unique, concurrent ones included, return
\* different pubkeys, and a call that starts after another has returned gets
\* a pubkey that is strictly greater byte-wise, as long as the 64-bit counter
\* has not wrapped when the calls fetch it.
C18_NewUniqueDistinctIncreasing ==
    \A j \in 1..Len(uq.log) : \A k \in 1..Len(uq.log) :
        (k # j /\ uq.log[j].fresh /\ uq.log[k].fresh) =>
            /\ uq.log[k].key # uq.log[j].key
            /\ (k <= uq.log[j].after) => AddrBefore(uq.log[k].key, uq.log[j].key)

\* two calls overlap, and a third call that follows them crosses a byte boundary
C18_Witness ==
    /\ Len(uq.log) = 3
    /\ \A j \in 1..3 : uq.log[j].fresh
    /\ uq.log[2].after = 0
    /\ uq.log[1].thread # uq.log[2].thread
    /\ uq.log[3].after = 2
    /\ uq.log[3].key[7] = 1
    /\ AddrBefore(uq.log[1].key, uq.log[3].key)

(***************************************************************************)
(* Specifications.                                                         *)
(***************************************************************************)
Init == InitCow /\ ParkedHash /\ InitMerkle /\ ParkedLam /\ ParkedConv /\ ParkedUnique

Next == NextCow

Spec == Init /\ [][Next]_vars

InitH == InitHash /\ InitCow /\ InitMerkle /\ ParkedLam /\ ParkedConv /\ ParkedUnique

SpecHash == InitH /\ [][NextHash]_vars

InitM == InitMerkle /\ InitCow /\ ParkedHash /\ ParkedLam /\ ParkedConv /\ ParkedUnique

SpecMerkle == InitM /\ [][NextMerkle]_vars

\* a call that can go on does go on: the thread that called the loop runs it.
\* Every step of the loop adds one to mk.depth, so a step that changes anything
\* changes <<mk.pc, mk.depth>>
SpecMerkleFair == SpecMerkle /\ WF_<<mk.pc, mk.depth>>(compute_merkle_root_loop)

InitL == InitLam /\ InitCow /\ ParkedHash /\ InitMerkle /\ ParkedConv /\ ParkedUnique

SpecLamports == InitL /\ [][NextLam]_vars

InitC == InitCow /\ ParkedConv /\ ParkedHash /\ InitMerkle /\ ParkedLam /\ ParkedUnique

SpecConv == InitC /\ [][NextConv]_vars

InitU == InitUnique /\ InitCow /\ ParkedHash /\ InitMerkle /\ ParkedLam /\ ParkedConv

SpecUnique == InitU /\ [][NextUnique]_vars

====
